---- MODULE Spec2Model ----
(***************************************************************************)
(* Model of src/main.js: the debug-session establisher                     *)
(* (ensureChromeDebugging), the tab tracking engine (ensureTabTracking,    *)
(* stopTabTracking and the three Target.* handlers) and the supervisor     *)
(* entry points (fetchChromeTabs, sendChromeTabs, switchProfile, the       *)
(* did-finish-load handler).                                               *)
(*                                                                         *)
(* JavaScript runs every callback to completion.  An async function is     *)
(* suspended only at an await on I/O (a probe, a spawn, a timer, a         *)
(* protocol request); the code between two such awaits is one atomic       *)
(* action.  A return to a caller that is itself awaiting resumes the       *)
(* caller in the same turn: `cur` names the task whose synchronous code    *)
(* is running, and while cur # 0 nothing else is scheduled.                *)
(***************************************************************************)
EXTENDS Integers, Sequences, FiniteSets, TLC

\* ---------------------------------------------------------------- bounds
MaxCalls == 2      \* top-level operations started in one behaviour
MaxTasks == 2      \* operations in flight at the same time
MaxConns == 2      \* protocol connections opened in one behaviour
MaxLaunch == 2     \* browser processes spawned in one behaviour
OneLaunch == 1     \* the same, where one launch is all that is looked at
MaxNotes == 1      \* lifecycle notifications delivered in one behaviour
MaxTargets == 1    \* page targets per browser

\* ------------------------------------------------------ program constants
DEFAULT_DEBUG_PORT == 9222
ALT_DEBUG_PORT == 9223
\* CHROME_DEBUG_PORT is unset: Number(undefined) is not finite.
DEBUG_PORT == DEFAULT_DEBUG_PORT
WaitAttempts == 240
\* A port a caller may request besides the two built in.
OtherPort == ALT_DEBUG_PORT + 1

Ports == {DEBUG_PORT, ALT_DEBUG_PORT, OtherPort}
TaskIds == 1..MaxTasks
ConnIds == 1..MaxConns
ProcIds == 1..MaxLaunch
Profiles == {"Default", "Profile 2"}
Platforms == {"win32", "linux"}
None == "none"

\* `${port}` in a template literal.
PortStr(p) ==
  CASE p = DEFAULT_DEBUG_PORT -> "9222"
    [] p = ALT_DEBUG_PORT -> "9223"
    [] OTHER -> "9224"

\* ------------------------------------------------------------- variables
VARIABLES
  \* module-level state of main.js
  currentDebugPort, launchedChrome, launchedChromeSpawnError,
  launchedChromeExited, selectedProfileName, detectedActiveProfile,
  lastStatusMessage, currentUserDataDir,
  cdpClient, cdpPort, tabStateStartedAt, tabsById, initialTabIds,
  \* configuration read once at start-up
  FORCE_KILL_CHROME, platform,
  \* the host: whether the process query by name sees the browser's
  \* processes, and how many spawns it lets succeed
  enumerates, spawnable,
  \* the environment's profile settings (CHROME_PROFILE_DIR and
  \* CHROME_PROFILE_NAME) and the root override derived from them
  profileEnv, chromeUserDataRootOverride,
  \* the last value an invoke of a synchronous IPC handler resolved with
  reply,
  \* the world outside the process
  extPorts, extPlain, locks, localState, procs, launchProfile, signalled,
  conns, now,
  \* what the window has been sent
  sentTabs, sentStatus,
  \* the async calls in flight
  tasks, cur, calls, notes,
  \* history: the destructive effects and filter hits so far, and the
  \* isInitial value each id was first seen with in the current epoch
  log, flagSeen,
  \* history: the last lifecycle notification a handler was run for
  lastNote

progVars == <<currentDebugPort, launchedChrome, launchedChromeSpawnError,
              launchedChromeExited, selectedProfileName, detectedActiveProfile,
              lastStatusMessage, currentUserDataDir>>
trackVars == <<cdpClient, cdpPort, tabStateStartedAt, tabsById, initialTabIds>>
confVars == <<FORCE_KILL_CHROME, platform, enumerates, spawnable, profileEnv,
              chromeUserDataRootOverride>>
worldVars == <<extPorts, extPlain, locks, localState, procs, launchProfile,
               signalled, conns, now>>
sentVars == <<sentTabs, sentStatus>>
schedVars == <<tasks, cur, calls, notes>>
histVars == <<log, flagSeen, lastNote>>
vars == <<progVars, trackVars, confVars, reply, worldVars, sentVars, schedVars,
          histVars>>

\* ------------------------------------------------------------ the world
\* A launched process: "none" (not spawned), "starting" (spawned, debug
\* port not open yet), "listening", "dead" (gone, its 'exit' event not yet
\* delivered to the supervisor), "reaped" (the 'exit' handler has run).
ProcStates == {"none", "starting", "listening", "dead", "reaped"}

\* The browser serving the debug endpoint of port p, 0 when there is none.
\* A launched browser is named by its process id, an external one by its
\* port.  Every launch is against DEBUG_PORT (main.js:427).
Serving(p) ==
  IF p = DEBUG_PORT /\ \E n \in ProcIds : procs[n] = "listening"
    THEN CHOOSE n \in ProcIds : procs[n] = "listening"
    ELSE IF p \in extPorts THEN p ELSE 0

\* checkChromeDebugging resolves true iff a response arrives in time.
checkChromeDebugging(p) == Serving(p) # 0

\* Whether a browser is alive (b is a process id or an external port).
Alive(b) ==
  IF b \in ProcIds THEN procs[b] \in {"starting", "listening"}
  ELSE b \in extPorts

\* ------------------------------------------------------ pure helpers
\* Status strings, as their words.
MsgConnected(p) == <<"Connected", "to", "Chrome", "on", "port", PortStr(p)>>
MsgStandoff ==
  <<"Chrome", "is", "running", "but", "remote", "debugging", "is", "off", ".",
    "Close", "Chrome", "or", "set", "CHROME_FORCE_KILL=1", ",", "then",
    "Refresh", ".">>
MsgSpawnFailed == <<"Failed", "to", "launch", "Chrome", ":", "spawn", "ENOENT">>
HintForce ==
  <<"Chrome", "failed", "to", "open", "the", "debug", "port", ".", "Check",
    "the", "[CHROME]", "logs", "above", "for", "errors", ".">>
HintNoForce ==
  <<"Chrome", "may", "already", "be", "running", "or", "the", "profile", "is",
    "locked", ".", "Close", "Chrome", "or", "set", "CHROME_FORCE_KILL=1", ".">>
MsgWaitFailed(p, force) ==
  <<"Failed", "to", "launch", "Chrome", "remote", "debugging", "on", "port",
    PortStr(p), ".">> \o (IF force THEN HintForce ELSE HintNoForce)
MsgLaunched(p) ==
  <<"Launched", "Chrome", "with", "remote", "debugging", "on", "port",
    PortStr(p)>>
MsgTrackingError == <<"WebSocket", "connection", "closed">>
MsgFetchError == <<"connect", "ECONNREFUSED">>

\* The persisted state file <root>/Local State, as far as it is read:
\* whether it exists, whether it parses, and profile.last_active_profiles /
\* profile.last_used (None when the field is absent).
\* info_cache is profile.info_cache as its entries in key order, each with
\* the directory key and the display name ("" when the entry has none).
LocalStateMissing ==
  [exists |-> FALSE, parses |-> FALSE, last_active |-> <<>>, last_used |-> None,
   info_cache |-> <<>>]
LocalStateFull ==
  [exists |-> TRUE, parses |-> TRUE, last_active |-> <<"Profile 2", "Default">>,
   last_used |-> "Default",
   info_cache |-> << [key |-> "Default", name |-> "Person 1"],
                     [key |-> "Profile 2", name |-> ""] >>]
LocalStates ==
  { LocalStateMissing,
    [exists |-> TRUE, parses |-> FALSE, last_active |-> <<>>, last_used |-> None,
     info_cache |-> <<>>],
    [exists |-> TRUE, parses |-> TRUE, last_active |-> <<>>, last_used |-> None,
     info_cache |-> <<>>],
    [exists |-> TRUE, parses |-> TRUE, last_active |-> <<>>, last_used |-> "Default",
     info_cache |-> << [key |-> "Default", name |-> "Person 1"] >>],
    LocalStateFull }

\* File paths are sequences of components; <<>> is the empty string, which
\* also stands for an unset variable (both are falsy), and <<" ">> is a
\* string of white space only.
NoPath == <<>>
BlankPath == <<" ">>
\* String.prototype.trim on a path: white space alone trims to nothing.
Trim(p) == IF p = BlankPath THEN NoPath ELSE p
\* path.basename and path.dirname of a normalized path of two or more
\* components.
Basename(p) == p[Len(p)]
Dirname(p) == SubSeq(p, 1, Len(p) - 1)
\* String.prototype.toLowerCase on the directory names that occur.
ToLowerCase(w) ==
  IF w \in {"User Data", "USER DATA", "user data"} THEN "user data"
  ELSE IF w \in {"Work", "work"} THEN "work"
  ELSE IF w \in {"Profile 1", "profile 1"} THEN "profile 1"
  ELSE w

\* main.js:20-35, the module-level resolution of the profile settings of
\* environment e = [dir, name].  The name-only setting, when given, stays
\* the profile name; the path's last component is used only without it.
EnvProfileName(e) == IF e.name \in {None, ""} THEN None ELSE e.name
ResolvedProfileName(e) ==
  IF Trim(e.dir) = NoPath THEN EnvProfileName(e)
  ELSE IF ToLowerCase(Basename(Trim(e.dir))) = "user data"
    THEN EnvProfileName(e)
  ELSE IF EnvProfileName(e) # None THEN EnvProfileName(e)
  ELSE Basename(Trim(e.dir))
ResolvedRootOverride(e) ==
  IF Trim(e.dir) = NoPath THEN NoPath
  ELSE IF ToLowerCase(Basename(Trim(e.dir))) = "user data" THEN Trim(e.dir)
  ELSE Dirname(Trim(e.dir))

\* main.js:37-46: the platform's default root, and the root in use.
defaultChromeUserDataRoot ==
  IF platform = "win32"
    THEN <<"LOCALAPPDATA", "Google", "Chrome", "User Data">>
    ELSE <<"HOME", ".config", "google-chrome">>
chromeUserDataRoot ==
  IF chromeUserDataRootOverride # NoPath THEN chromeUserDataRootOverride
  ELSE defaultChromeUserDataRoot

\* main.js:88-107: the profiles listed in the state file; none when the
\* file is missing or does not parse (the catch).
ProfileEntry(c) ==
  [id |-> c.key, name |-> IF c.name # "" THEN c.name ELSE c.key,
   path |-> Append(chromeUserDataRoot, c.key)]
getAvailableProfiles ==
  IF ~localState.exists THEN <<>>
  ELSE IF ~localState.parses THEN <<>>
  ELSE [i \in 1..Len(localState.info_cache) |->
          ProfileEntry(localState.info_cache[i])]

readActiveProfileName ==
  IF ~localState.exists THEN None
  ELSE IF ~localState.parses THEN None
  ELSE IF Len(localState.last_active) > 0 THEN localState.last_active[1]
  ELSE localState.last_used

\* main.js:109-148: pgrep -x / Get-Process by name: some browser process
\* is found.  Where the query fails, or the browser's processes go by
\* another name (a Chromium found by findChromeExecutable is not matched by
\* pgrep -x chrome), nothing is found.
chromeProcessesRunning ==
  /\ enumerates
  /\ \/ extPlain
     \/ extPorts # {}
     \/ \E n \in ProcIds : procs[n] \in {"starting", "listening"}

\* A singleton-lock artifact exists under the root or the selected profile.
chromeProfileLikelyLocked == locks

\* Number(s) for the strings a caller may pass; -1 stands for NaN.
StrToNum(s) ==
  CASE s = "9222" -> 9222
    [] s = "9223" -> 9223
    [] s = "9224" -> 9224
    [] OTHER -> -1

\* The inputs of fetchChromeTabs: a number, a string, or neither (undefined,
\* or the IPC event object the preload's fetch() leaves in first place).
InputKinds == {"num", "str", "other"}
InputStrings == {"9222", "9224", "abc", ""}

resolvePort(kind, n, s) ==
  IF kind = "num" THEN n
  ELSE IF kind = "str" /\ s # "" /\ StrToNum(s) # -1 THEN StrToNum(s)
  ELSE IF currentDebugPort # 0 THEN currentDebugPort ELSE DEBUG_PORT

\* ------------------------------------------------------------- tasks
IdleTask ==
  [op |-> "idle", pc |-> "idle", stack |-> <<>>, port |-> 0, i |-> 0,
   conn |-> 0, rv |-> FALSE, ok |-> FALSE, arg |-> None, launchArg |-> None,
   owned |-> 0, held |-> 0, probed |-> <<>>, ran |-> {}, result |-> {},
   tracked |-> FALSE, tries |-> 0]

\* Return v to the caller: resume at the label the caller pushed, or end
\* the operation.  The caller's continuation runs in the same turn.
\* A finished operation keeps what it was and what it returned.
Return(tk, v) ==
  IF tk.stack = <<>>
    THEN [IdleTask EXCEPT !.op = tk.op, !.pc = "done", !.rv = v, !.ok = tk.ok,
                          !.arg = tk.arg, !.owned = tk.owned, !.held = tk.held,
                          !.probed = tk.probed, !.ran = tk.ran, !.i = tk.i,
                          !.result = tk.result, !.tracked = tk.tracked]
    ELSE [tk EXCEPT !.pc = Head(tk.stack), !.stack = Tail(tk.stack), !.rv = v]

\* The task keeps the turn iff it returned into a caller.
TurnAfter(t, tk) == IF tk.pc = "done" THEN 0 ELSE t

\* ensureChromeDebugging(), up to its first await: probe currentDebugPort.
\* p is currentDebugPort as the call reads it.
\* `held` keeps the launched-process handle the call found, `probed` the
\* ports it has probed and `ran` the helpers it has run.
CallECD(tk, p) ==
  [tk EXCEPT !.pc = "ecd_probe1", !.port = p, !.probed = <<p>>, !.ran = {},
             !.held = launchedChrome]

\* The caller's continuation label, pushed before a call.
Push(tk, ret) == [tk EXCEPT !.stack = <<ret>> \o @]

\* ensureTabTracking(), up to its first await: probe currentDebugPort.
\* `tries` counts the connections the call requests.
CallETT(tk, p) == [tk EXCEPT !.pc = "ett_probe", !.port = p, !.tries = 0]

\* ------------------------------------------------------------ Init
\* The module-level initial values (main.js:23-64) and no call in flight.
NoNote == [kind |-> "none", conn |-> 0, k |-> 0,
           info |-> [type |-> "absent", title |-> "", url |-> <<>>]]
NoEnv == [dir |-> NoPath, name |-> None]
NoReply == [op |-> "none", name |-> None, profiles |-> <<>>, threw |-> FALSE]
\* The state main.js:20-35 leaves when the module has loaded under e.
ModuleLoaded(e) ==
  /\ profileEnv = e
  /\ selectedProfileName = ResolvedProfileName(e)
  /\ chromeUserDataRootOverride = ResolvedRootOverride(e)

InitProgram ==
  /\ reply = NoReply
  /\ currentDebugPort = DEBUG_PORT
  /\ launchedChrome = 0
  /\ launchedChromeSpawnError = FALSE
  /\ launchedChromeExited = FALSE
  /\ detectedActiveProfile = None
  /\ lastStatusMessage = <<>>
  /\ currentUserDataDir = None
  /\ cdpClient = 0
  /\ cdpPort = 0
  /\ tabStateStartedAt = 0
  /\ tabsById = [x \in {} |-> x]
  /\ initialTabIds = {}
  /\ procs = [n \in ProcIds |-> "none"]
  /\ launchProfile = [n \in ProcIds |-> None]
  /\ signalled = {}
  /\ conns = [c \in ConnIds |-> [state |-> "none", browser |-> 0, port |-> 0,
                                 handlers |-> FALSE]]
  /\ now = 1
  /\ sentTabs = [any |-> FALSE, tabs |-> {}]
  /\ sentStatus = <<>>
  /\ tasks = [t \in TaskIds |-> IdleTask]
  /\ cur = 0
  /\ calls = 0
  /\ notes = 0
  /\ log = {}
  /\ flagSeen = [x \in {} |-> x]
  /\ lastNote = NoNote

\* ---------------------------------------------------- forceKillChrome
\* What forceKillChrome() leaves behind (main.js:175-231): nothing changes
\* unless CHROME_FORCE_KILL=1; then every browser process is killed by name
\* and the singleton-lock artifacts are unlinked.  A killed child's 'exit'
\* event is still to be delivered.
KilledProcs ==
  [n \in ProcIds |->
     IF procs[n] \in {"starting", "listening"} THEN "dead" ELSE procs[n]]

DropConns(deadBrowsers) ==
  [c \in ConnIds |->
     IF conns[c].state \in {"open", "closing"} /\ conns[c].browser \in deadBrowsers
       THEN [conns[c] EXCEPT !.state = "closed"]
       ELSE conns[c]]

LiveBrowsers ==
  extPorts \cup {n \in ProcIds : procs[n] \in {"starting", "listening"}}

\* The opt-in guard removed: the kill runs whatever the setting.
ForceKillAlways == TRUE

\* main.js:176: forceKillChrome returns at once unless CHROME_FORCE_KILL=1.
ForceKillEnabled == FORCE_KILL_CHROME

forceKillChrome ==
  IF ~ForceKillEnabled
    THEN UNCHANGED <<extPorts, extPlain, locks, procs, conns, log>>
    ELSE /\ extPorts' = {}
         /\ extPlain' = FALSE
         /\ procs' = KilledProcs
         /\ conns' = DropConns(LiveBrowsers)
         /\ locks' = FALSE
         /\ log' = log \cup {"killByName"}
                       \cup (IF locks THEN {"unlinkLock"} ELSE {})

\* ------------------------------------------- ensureChromeDebugging
\* The fallback order reversed: the alternate port probed before the
\* default one.
AlternateFirst == ALT_DEBUG_PORT

\* main.js:393 and 400: the ports probed after the remembered one.
SecondPort == DEBUG_PORT
ThirdPort == ALT_DEBUG_PORT

\* main.js:387-391: the probe of the remembered port has answered.
EcdProbe1Done(t) ==
  /\ cur = 0
  /\ tasks[t].pc = "ecd_probe1"
  /\ IF checkChromeDebugging(tasks[t].port)
       THEN /\ detectedActiveProfile' = readActiveProfileName
            /\ lastStatusMessage' = MsgConnected(currentDebugPort)
            /\ tasks' = [tasks EXCEPT ![t] = Return(@, TRUE)]
            /\ cur' = TurnAfter(t, tasks'[t])
       ELSE /\ tasks' = [tasks EXCEPT ![t].pc = "ecd_probe2",
                                      ![t].port = SecondPort,
                                      ![t].probed = Append(@, SecondPort)]
            /\ UNCHANGED <<detectedActiveProfile, lastStatusMessage, cur>>
  /\ UNCHANGED <<currentDebugPort, launchedChrome, launchedChromeSpawnError,
                 launchedChromeExited, selectedProfileName, currentUserDataDir,
                 trackVars, confVars, reply, worldVars, sentVars, calls, notes, histVars>>

\* main.js:393-398: the probe of DEBUG_PORT has answered.
EcdProbe2Done(t) ==
  /\ cur = 0
  /\ tasks[t].pc = "ecd_probe2"
  /\ IF checkChromeDebugging(tasks[t].port)
       THEN /\ currentDebugPort' = SecondPort
            /\ detectedActiveProfile' = readActiveProfileName
            /\ lastStatusMessage' = MsgConnected(SecondPort)
            /\ tasks' = [tasks EXCEPT ![t] = Return(@, TRUE)]
            /\ cur' = TurnAfter(t, tasks'[t])
       ELSE /\ ThirdPort # SecondPort
            /\ tasks' = [tasks EXCEPT ![t].pc = "ecd_probe3",
                                      ![t].port = ThirdPort,
                                      ![t].probed = Append(@, ThirdPort)]
            /\ UNCHANGED <<currentDebugPort, detectedActiveProfile,
                           lastStatusMessage, cur>>
  /\ UNCHANGED <<launchedChrome, launchedChromeSpawnError,
                 launchedChromeExited, selectedProfileName, currentUserDataDir,
                 trackVars, confVars, reply, worldVars, sentVars, calls, notes, histVars>>

\* main.js:410: the conflict detector.
chromeRunning ==
  chromeProcessesRunning \/ (platform = "win32" /\ chromeProfileLikelyLocked)

\* The standoff with the test of the force-kill option inverted.
StandoffInverted == chromeRunning /\ FORCE_KILL_CHROME

\* main.js:411: the standoff.
Standoff == chromeRunning /\ ~FORCE_KILL_CHROME

\* main.js:400-427: the probe of ALT_DEBUG_PORT has answered; on failure the
\* conflict check, the force-kill and the launch follow in the same turn, up
\* to the await of the child's 'spawn' or 'error' event.
EcdProbe3Done(t) ==
  /\ cur = 0
  /\ tasks[t].pc = "ecd_probe3"
  /\ IF checkChromeDebugging(tasks[t].port)
       THEN /\ currentDebugPort' = ThirdPort
            /\ detectedActiveProfile' = readActiveProfileName
            /\ lastStatusMessage' = MsgConnected(ThirdPort)
            /\ tasks' = [tasks EXCEPT ![t] = Return(@, TRUE)]
            /\ cur' = TurnAfter(t, tasks'[t])
            /\ UNCHANGED <<launchedChromeSpawnError, launchedChromeExited,
                           extPorts, extPlain, locks, procs, conns, log>>
       ELSE IF Standoff
         THEN /\ lastStatusMessage' = MsgStandoff
              /\ tasks' = [tasks EXCEPT
                             ![t] = Return([@ EXCEPT !.ran = @ \cup {"detect"}],
                                           FALSE)]
              /\ cur' = TurnAfter(t, tasks'[t])
              /\ UNCHANGED <<currentDebugPort, detectedActiveProfile,
                             launchedChromeSpawnError, launchedChromeExited,
                             extPorts, extPlain, locks, procs, conns, log>>
         ELSE /\ forceKillChrome
              /\ launchedChromeSpawnError' = FALSE
              /\ launchedChromeExited' = FALSE
              /\ tasks' = [tasks EXCEPT
                             ![t].pc = "ecd_spawn",
                             ![t].port = DEBUG_PORT,
                             ![t].launchArg = selectedProfileName,
                             ![t].ran = @ \cup {"detect", "forceKillChrome",
                                                "launch"}]
              /\ UNCHANGED <<currentDebugPort, detectedActiveProfile,
                             lastStatusMessage, cur>>
  /\ UNCHANGED <<launchedChrome, selectedProfileName, currentUserDataDir,
                 trackVars, confVars, reply, localState, launchProfile, signalled,
                 now, sentVars, calls, notes, flagSeen,
                 lastNote>>

\* The premature-exit flag left out of the wait's abort test.
SpawnErrorOnly == launchedChromeSpawnError

\* main.js:362-369: an iteration of waitForDebugPort aborts the wait when
\* it reads either flag set.
AbortWait == launchedChromeSpawnError \/ launchedChromeExited

\* The first process id not yet used, 0 when the host lets no further
\* spawn succeed.
FreeProc ==
  IF \E n \in ProcIds : n <= spawnable /\ procs[n] = "none"
    THEN CHOOSE n \in ProcIds :
           procs[n] = "none" /\ \A m \in ProcIds : m < n => procs[m] # "none"
    ELSE 0

\* main.js:323-336 and 426-437: the spawn has been answered, by 'error'
\* (spawned = FALSE) or by 'spawn'.  After 'spawn' the child is stored, the
\* launch port remembered and waitForDebugPort entered: its first iteration
\* reads the two flags and issues a probe.
EcdSpawnDone(t, spawned) ==
  /\ cur = 0
  /\ tasks[t].pc = "ecd_spawn"
  /\ IF ~spawned
       THEN /\ launchedChromeSpawnError' = TRUE
            /\ lastStatusMessage' = MsgSpawnFailed
            /\ tasks' = [tasks EXCEPT ![t] = Return(@, FALSE)]
            /\ cur' = TurnAfter(t, tasks'[t])
            /\ UNCHANGED <<currentDebugPort, launchedChrome, currentUserDataDir,
                           detectedActiveProfile, procs, launchProfile>>
       ELSE /\ FreeProc # 0
            /\ procs' = [procs EXCEPT ![FreeProc] = "starting"]
            /\ launchProfile' =
                 [launchProfile EXCEPT ![FreeProc] = tasks[t].launchArg]
            /\ currentUserDataDir' = "root"
            /\ launchedChrome' = FreeProc
            /\ currentDebugPort' = DEBUG_PORT
            /\ UNCHANGED launchedChromeSpawnError
            /\ IF AbortWait
                 THEN /\ detectedActiveProfile' = readActiveProfileName
                      /\ lastStatusMessage' =
                           MsgWaitFailed(DEBUG_PORT, FORCE_KILL_CHROME)
                      /\ tasks' = [tasks EXCEPT ![t] = Return(@, FALSE)]
                      /\ cur' = TurnAfter(t, tasks'[t])
                 ELSE /\ tasks' = [tasks EXCEPT ![t].pc = "ecd_wait",
                                                ![t].port = DEBUG_PORT,
                                                ![t].i = 0]
                      /\ UNCHANGED <<detectedActiveProfile, lastStatusMessage,
                                     cur>>
  /\ UNCHANGED <<launchedChromeExited, selectedProfileName, trackVars,
                 confVars, reply, extPorts, extPlain, locks, localState, signalled,
                 conns, now, sentVars, calls, notes, histVars>>

\* main.js:371-379 and 437-450: a probe of waitForDebugPort has answered.
EcdWaitProbeDone(t) ==
  /\ cur = 0
  /\ tasks[t].pc = "ecd_wait"
  /\ IF checkChromeDebugging(tasks[t].port)
       THEN /\ detectedActiveProfile' = readActiveProfileName
            /\ lastStatusMessage' = MsgLaunched(currentDebugPort)
            /\ tasks' = [tasks EXCEPT ![t] = Return(@, TRUE)]
            /\ cur' = TurnAfter(t, tasks'[t])
       ELSE /\ tasks' = [tasks EXCEPT ![t].pc = "ecd_delay"]
            /\ UNCHANGED <<detectedActiveProfile, lastStatusMessage, cur>>
  /\ UNCHANGED <<currentDebugPort, launchedChrome, launchedChromeSpawnError,
                 launchedChromeExited, selectedProfileName, currentUserDataDir,
                 trackVars, confVars, reply, worldVars, sentVars, calls, notes, histVars>>

\* main.js:360-371 and 379-382: the delay has elapsed; the loop ends after
\* WaitAttempts iterations, or at an iteration that reads a flag set.
\* d = 1 is one iteration.  d > 1 stands for d iterations in a row with no
\* other callback run between them: each of the first d - 1 reads both flags
\* unset and has its probe refused, so only the counter moves.
EcdDelayDone(t, d) ==
  /\ cur = 0
  /\ tasks[t].pc = "ecd_delay"
  /\ d >= 1
  /\ d > 1 => /\ tasks[t].i + d < WaitAttempts
              /\ ~launchedChromeSpawnError
              /\ ~launchedChromeExited
              /\ ~checkChromeDebugging(tasks[t].port)
  /\ IF tasks[t].i + d >= WaitAttempts \/ AbortWait
       THEN /\ detectedActiveProfile' = readActiveProfileName
            /\ lastStatusMessage' =
                 MsgWaitFailed(currentDebugPort, FORCE_KILL_CHROME)
            /\ tasks' = [tasks EXCEPT
                           ![t] = Return([@ EXCEPT !.i = @ + d], FALSE)]
            /\ cur' = TurnAfter(t, tasks'[t])
       ELSE /\ tasks' = [tasks EXCEPT ![t].pc = "ecd_wait", ![t].i = @ + d]
            /\ UNCHANGED <<detectedActiveProfile, lastStatusMessage, cur>>
  /\ UNCHANGED <<currentDebugPort, launchedChrome, launchedChromeSpawnError,
                 launchedChromeExited, selectedProfileName, currentUserDataDir,
                 trackVars, confVars, reply, worldVars, sentVars, calls, notes, histVars>>

\* The iterations taken in one step: the long middle of the wait, in which
\* nothing but the counter changes, is passed at once.
Pace(i) == IF i = 0 THEN WaitAttempts - 2 ELSE 1

\* ------------------------------------------------- the world's moves
\* A launched browser opens its debug port, unless the port is taken.
ProcOpensPort(n) ==
  /\ cur = 0
  /\ procs[n] = "starting"
  /\ Serving(DEBUG_PORT) = 0
  /\ procs' = [procs EXCEPT ![n] = "listening"]
  /\ UNCHANGED <<progVars, trackVars, confVars, reply, extPorts, extPlain, locks,
                 localState, launchProfile, signalled, conns, now, sentVars,
                 schedVars, histVars>>

\* A launched browser exits (killed, closed by the user, or because another
\* instance holds the profile); its connections drop.
ProcDies(n) ==
  /\ cur = 0
  /\ procs[n] \in {"starting", "listening"}
  /\ procs' = [procs EXCEPT ![n] = "dead"]
  /\ conns' = DropConns({n})
  /\ UNCHANGED <<progVars, trackVars, confVars, reply, extPorts, extPlain, locks,
                 localState, launchProfile, signalled, now, sentVars,
                 schedVars, histVars>>

\* main.js:348-351: the 'exit' handler of a child runs.
ChildExitEvent(n) ==
  /\ cur = 0
  /\ procs[n] = "dead"
  /\ procs' = [procs EXCEPT ![n] = "reaped"]
  /\ launchedChromeExited' = TRUE
  /\ UNCHANGED <<currentDebugPort, launchedChrome, launchedChromeSpawnError,
                 selectedProfileName, detectedActiveProfile, lastStatusMessage,
                 currentUserDataDir, trackVars, confVars, reply, extPorts, extPlain,
                 locks, localState, launchProfile, signalled, conns, now,
                 sentVars, schedVars, histVars>>

\* An external browser with a debug endpoint on port p exits.
ExtExits(p) ==
  /\ cur = 0
  /\ p \in extPorts
  /\ extPorts' = extPorts \ {p}
  /\ conns' = DropConns({p})
  /\ UNCHANGED <<progVars, trackVars, confVars, reply, extPlain, locks, localState,
                 procs, launchProfile, signalled, now, sentVars, schedVars,
                 histVars>>

\* ------------------------------------------------- targets and registry
Browsers == ProcIds \cup Ports
TargetIds == Browsers \X (1..MaxTargets)

\* A URL as its scheme prefix and the rest; <<>> is the empty string.
DevtoolsUrl == <<"devtools://", "devtools/bundled/inspector.html">>
PageUrl == <<"https://", "a.example/">>
Urls == {<<>>, DevtoolsUrl, PageUrl}
Titles == {"", "A"}
Types == {"page", "other"}
\* The infos a browser reports: a page, the same page before it has a title
\* or a URL, a DevTools front-end page, and a target that is not a page.
TargetInfos ==
  { [type |-> "page", title |-> "A", url |-> PageUrl],
    [type |-> "page", title |-> "", url |-> <<>>],
    [type |-> "page", title |-> "A", url |-> DevtoolsUrl],
    [type |-> "other", title |-> "A", url |-> PageUrl] }
\* One slot of a target list: a target's info, or no target ("absent").
Slots == TargetInfos \cup {[type |-> "absent", title |-> "", url |-> <<>>]}
TargetLists == [1..MaxTargets -> Slots]

\* url.startsWith('devtools://')
StartsWithDevtools(u) == Len(u) > 0 /\ u[1] = "devtools://"

EmptyMap == [x \in {} |-> x]

MapSet(m, k, v) == [x \in DOMAIN m \cup {k} |-> IF x = k THEN v ELSE m[x]]
MapDelete(m, k) == [x \in DOMAIN m \ {k} |-> m[x]]

\* main.js:453-462.
tabsFromState(reg) ==
  { [id |-> id, title |-> reg[id].title, url |-> reg[id].url,
     isInitial |-> reg[id].isInitial, createdAt |-> reg[id].createdAt] :
    id \in DOMAIN reg }

\* The filter without its test of the URL prefix.
TrackedAnyPage(info) == info.type = "page"

\* main.js:505-506, 520-521, 536-537: the filter of every entry point.
Tracked(info) == info.type = "page" /\ ~StartsWithDevtools(info.url)

\* main.js:504-517: the seed loop over the targets browser b lists, on
\* connection c.  Entries carry `via`, the connection that wrote them, and
\* `type`, the type of the target they were written from.
SeededIds(b, list) == {<<b, k>> : k \in {j \in 1..MaxTargets : Tracked(list[j])}}

Seeded(reg, b, c, list, startedAt) ==
  [id \in DOMAIN reg \cup SeededIds(b, list) |->
     IF id \in SeededIds(b, list)
       THEN [title |-> list[id[2]].title, url |-> list[id[2]].url,
             createdAt |-> startedAt, isInitial |-> TRUE, via |-> c,
             type |-> list[id[2]].type]
       ELSE reg[id]]

\* main.js:519-533.
OnTargetCreated(reg, id, c, info) ==
  IF ~Tracked(info) THEN reg
  ELSE MapSet(reg, id, [title |-> info.title, url |-> info.url,
                        createdAt |-> now, isInitial |-> id \in initialTabIds,
                        via |-> c, type |-> info.type])

\* The changed handler writing the entry the way the created handler does.
ChangedAsCreated(reg, id, c, info) == OnTargetCreated(reg, id, c, info)

\* main.js:535-549.
OnTargetInfoChanged(reg, id, c, info) ==
  IF ~Tracked(info) THEN reg
  ELSE LET has == id \in DOMAIN reg IN
       MapSet(reg, id,
         [title |-> IF info.title # "" THEN info.title
                    ELSE IF has THEN reg[id].title ELSE "",
          url |-> IF info.url # <<>> THEN info.url
                  ELSE IF has THEN reg[id].url ELSE <<>>,
          createdAt |-> IF has /\ reg[id].createdAt # 0
                          THEN reg[id].createdAt ELSE now,
          isInitial |-> IF has THEN reg[id].isInitial
                        ELSE id \in initialTabIds,
          via |-> c, type |-> info.type])

\* main.js:551-555.
OnTargetDestroyed(reg, id) == MapDelete(reg, id)

\* The entry points that met a DevTools front-end page and passed it over
\* are recorded in the log.
Skipped(infos) ==
  IF \E info \in infos : info.type = "page" /\ StartsWithDevtools(info.url)
    THEN {"skipDevtools"} ELSE {}

\* The isInitial value each id was first seen with in the epoch: all is
\* forgotten when an epoch starts or ends (restart), and ids not yet seen
\* are added from the registry reg otherwise.
SeenAfter(reg, restart) ==
  IF restart
    THEN [id \in DOMAIN reg |-> reg[id].isInitial]
    ELSE [id \in DOMAIN flagSeen \cup DOMAIN reg |->
            IF id \in DOMAIN flagSeen THEN flagSeen[id] ELSE reg[id].isInitial]

\* Whether the handler of a notification gets as far as its send.
Sends(kind, info) == kind = "destroyed" \/ Tracked(info)

\* A lifecycle notification arrives on connection c, whose handlers are
\* registered: until the close of a connection has completed its socket
\* still delivers messages.
\* At most `bound` notifications are handled in a run, and `note` is what the
\* history keeps of this one.
NotifyUpTo(c, kind, k, info, bound, note) ==
  /\ cur = 0
  /\ notes < bound
  /\ conns[c].state \in {"open", "closing"}
  /\ conns[c].handlers
  /\ LET id == <<conns[c].browser, k>> IN
     tabsById' = CASE kind = "created" -> OnTargetCreated(tabsById, id, c, info)
                   [] kind = "changed" -> OnTargetInfoChanged(tabsById, id, c, info)
                   [] OTHER -> OnTargetDestroyed(tabsById, id)
  /\ sentTabs' = IF Sends(kind, info)
                   THEN [any |-> TRUE, tabs |-> tabsFromState(tabsById')]
                   ELSE sentTabs
  /\ notes' = notes + 1
  /\ log' = log \cup (IF kind = "destroyed" THEN {} ELSE Skipped({info}))
  /\ flagSeen' = SeenAfter(tabsById', FALSE)
  /\ lastNote' = note
  /\ UNCHANGED <<progVars, cdpClient, cdpPort, tabStateStartedAt,
                 initialTabIds, confVars, reply, worldVars, sentStatus, tasks, cur,
                 calls>>

\* The notifications of a run are bounded by MaxNotes, and no history of
\* them is kept.
Notify(c, kind, k, info) == NotifyUpTo(c, kind, k, info, MaxNotes, NoNote)

\* ------------------------------------------------------ stopTabTracking
\* main.js:470-478: the registry is cleared and, when a connection is held,
\* its close is awaited.  Runs in the turn of its caller.
Stt(t) ==
  /\ cur = t
  /\ tasks[t].pc = "stt"
  /\ tabsById' = EmptyMap
  /\ initialTabIds' = {}
  /\ tabStateStartedAt' = 0
  /\ cdpPort' = 0
  /\ IF cdpClient # 0
       THEN /\ conns' = [conns EXCEPT ![cdpClient].state =
                           IF @ = "open" THEN "closing" ELSE @]
            /\ tasks' = [tasks EXCEPT ![t].pc = "stt_close",
                                      ![t].conn = cdpClient]
            /\ cur' = 0
       ELSE /\ tasks' = [tasks EXCEPT ![t] = Return(@, TRUE)]
            /\ cur' = TurnAfter(t, tasks'[t])
            /\ UNCHANGED conns
  /\ flagSeen' = SeenAfter(tabsById', TRUE)
  /\ UNCHANGED <<progVars, cdpClient, confVars, reply, extPorts, extPlain, locks,
                 localState, procs, launchProfile, signalled, now, sentVars,
                 calls, notes, log,
                 lastNote>>

\* main.js:478-483: the close has completed; cdpClient is set to null.
SttCloseDone(t) ==
  /\ cur = 0
  /\ tasks[t].pc = "stt_close"
  /\ conns' = [conns EXCEPT ![tasks[t].conn].state = "closed"]
  /\ cdpClient' = 0
  /\ tasks' = [tasks EXCEPT ![t] = Return(@, TRUE)]
  /\ cur' = TurnAfter(t, tasks'[t])
  /\ flagSeen' = SeenAfter(tabsById, TRUE)
  /\ UNCHANGED <<progVars, cdpPort, tabStateStartedAt, tabsById,
                 initialTabIds, confVars, reply, extPorts, extPlain, locks,
                 localState, procs, launchProfile, signalled, now, sentVars,
                 calls, notes, log,
                 lastNote>>

\* ---------------------------------------------------- ensureTabTracking
\* The early return taken on a port change instead of on the same port.
TrackingOtherPort == cdpClient # 0 /\ cdpPort # currentDebugPort

\* main.js:489: a connection is held and it is for the remembered port.
AlreadyTracking == cdpClient # 0 /\ cdpPort = currentDebugPort

\* main.js:487-491: the probe has answered.
EttProbeDone(t) ==
  /\ cur = 0
  /\ tasks[t].pc = "ett_probe"
  /\ IF ~checkChromeDebugging(tasks[t].port)
       THEN tasks' = [tasks EXCEPT ![t] = Return(@, FALSE)]
       ELSE IF AlreadyTracking
         THEN tasks' = [tasks EXCEPT ![t] = Return(@, TRUE)]
         ELSE tasks' = [tasks EXCEPT ![t] = Push([@ EXCEPT !.pc = "stt"],
                                                 "ett_afterSTT")]
  /\ cur' = TurnAfter(t, tasks'[t])
  /\ UNCHANGED <<progVars, trackVars, confVars, reply, worldVars, sentVars, calls,
                 notes, histVars>>

\* main.js:492-496: the epoch's start time and port are set and the
\* connection requested.
EttAfterStt(t) ==
  /\ cur = t
  /\ tasks[t].pc = "ett_afterSTT"
  /\ tabStateStartedAt' = now
  /\ cdpPort' = currentDebugPort
  /\ tasks' = [tasks EXCEPT ![t].pc = "ett_connect",
                            ![t].port = currentDebugPort,
                            ![t].tries = @ + 1]
  /\ cur' = 0
  /\ UNCHANGED <<progVars, cdpClient, tabsById, initialTabIds, confVars, reply,
                 worldVars, sentVars, calls, notes, histVars>>

FreeConn ==
  IF \E c \in ConnIds : conns[c].state = "none"
    THEN CHOOSE c \in ConnIds :
           /\ conns[c].state = "none"
           /\ \A d \in ConnIds : d < c => conns[d].state # "none"
    ELSE 0

\* The catch block without its teardown: it goes straight to its return.
CaughtNoTeardown(tk) == [tk EXCEPT !.pc = "ett_catch"]

\* main.js:560-563: the catch block, up to its call of stopTabTracking.
Caught(tk) == Push([tk EXCEPT !.pc = "stt"], "ett_catch")

\* main.js:496-499: CDP() has settled.
EttConnectDone(t) ==
  /\ cur = 0
  /\ tasks[t].pc = "ett_connect"
  /\ IF Serving(tasks[t].port) # 0
       THEN /\ FreeConn # 0
            /\ conns' = [conns EXCEPT ![FreeConn] =
                           [state |-> "open", browser |-> Serving(tasks[t].port),
                            port |-> tasks[t].port, handlers |-> FALSE]]
            /\ cdpClient' = FreeConn
            /\ tasks' = [tasks EXCEPT ![t].pc = "ett_discover",
                                      ![t].conn = FreeConn]
            /\ flagSeen' = SeenAfter(tabsById, TRUE)
            /\ UNCHANGED <<lastStatusMessage, cur>>
       ELSE /\ lastStatusMessage' = MsgFetchError
            /\ tasks' = [tasks EXCEPT ![t] = Caught(@)]
            /\ cur' = t
            /\ UNCHANGED <<conns, cdpClient, flagSeen>>
  /\ UNCHANGED <<currentDebugPort, launchedChrome, launchedChromeSpawnError,
                 launchedChromeExited, selectedProfileName,
                 detectedActiveProfile, currentUserDataDir, cdpPort,
                 tabStateStartedAt, tabsById, initialTabIds, confVars, reply,
                 extPorts, extPlain, locks, localState, procs, launchProfile,
                 signalled, now, sentVars, calls, notes, log,
                 lastNote>>

\* Whether a request on connection c may be answered (answered), and
\* whether it may be rejected: a closed connection answers nothing, and one
\* being closed may still answer.
MayAnswer(c) == conns[c].state \in {"open", "closing"}
MayReject(c) == conns[c].state \in {"closing", "closed"}

\* main.js:499-501: Target.setDiscoverTargets has settled.
EttDiscoverDone(t, answered) ==
  /\ cur = 0
  /\ tasks[t].pc = "ett_discover"
  /\ IF answered
       THEN /\ MayAnswer(tasks[t].conn)
            /\ tasks' = [tasks EXCEPT ![t].pc = "ett_targets"]
            /\ UNCHANGED <<lastStatusMessage, cur>>
       ELSE /\ MayReject(tasks[t].conn)
            /\ lastStatusMessage' = MsgTrackingError
            /\ tasks' = [tasks EXCEPT ![t] = Caught(@)]
            /\ cur' = t
  /\ UNCHANGED <<currentDebugPort, launchedChrome, launchedChromeSpawnError,
                 launchedChromeExited, selectedProfileName,
                 detectedActiveProfile, currentUserDataDir, trackVars,
                 confVars, reply, worldVars, sentVars, calls, notes, histVars>>

\* main.js:501-559: Target.getTargets has settled; the registry is seeded,
\* the three handlers are registered and the first snapshot is sent.
EttTargetsDone(t, answered, list) ==
  /\ cur = 0
  /\ tasks[t].pc = "ett_targets"
  /\ IF answered
       THEN /\ MayAnswer(tasks[t].conn)
            /\ LET c == tasks[t].conn IN
               /\ tabsById' = Seeded(tabsById, conns[c].browser, c, list,
                                     tabStateStartedAt)
               /\ initialTabIds' =
                    initialTabIds \cup SeededIds(conns[c].browser, list)
               /\ conns' = [conns EXCEPT ![c].handlers = TRUE]
            /\ sentTabs' = [any |-> TRUE, tabs |-> tabsFromState(tabsById')]
            /\ log' = log \cup Skipped({list[k] : k \in 1..MaxTargets})
            /\ flagSeen' = SeenAfter(tabsById', FALSE)
            /\ tasks' = [tasks EXCEPT ![t] = Return(@, TRUE)]
            /\ UNCHANGED lastStatusMessage
       ELSE /\ MayReject(tasks[t].conn)
            /\ lastStatusMessage' = MsgTrackingError
            /\ tasks' = [tasks EXCEPT ![t] = Caught(@)]
            /\ UNCHANGED <<tabsById, initialTabIds, conns, sentTabs, histVars>>
  /\ cur' = TurnAfter(t, tasks'[t])
  /\ UNCHANGED <<currentDebugPort, launchedChrome, launchedChromeSpawnError,
                 launchedChromeExited, selectedProfileName,
                 detectedActiveProfile, currentUserDataDir, cdpClient, cdpPort,
                 tabStateStartedAt, confVars, reply, extPorts, extPlain, locks,
                 localState, procs, launchProfile, signalled, now, sentStatus,
                 calls, notes,
                 lastNote>>

\* main.js:564: the catch block returns false after stopTabTracking.
EttCatch(t) ==
  /\ cur = t
  /\ tasks[t].pc = "ett_catch"
  /\ tasks' = [tasks EXCEPT ![t] = Return(@, FALSE)]
  /\ cur' = TurnAfter(t, tasks'[t])
  /\ UNCHANGED <<progVars, trackVars, confVars, reply, worldVars, sentVars, calls,
                 notes, histVars>>

\* ------------------------------------------------------ fetchChromeTabs
Free(t) == tasks[t].pc \in {"idle", "done"}

\* A call takes the first free slot.
CanStart(t) ==
  /\ cur = 0
  /\ calls < MaxCalls
  /\ Free(t)
  /\ \A u \in TaskIds : u < t => ~Free(u)

\* No operation is in flight: the caller starts one operation at a time.
Quiet == \A t \in TaskIds : Free(t)

\* main.js:570-574: the consumer's fetch; the port is resolved and
\* remembered before the session is ensured.
StartFetch(t, kind, n, s) ==
  /\ CanStart(t)
  /\ currentDebugPort' = resolvePort(kind, n, s)
  /\ tasks' = [tasks EXCEPT ![t] =
                 CallECD(Push([IdleTask EXCEPT !.op = "fetch"], "fetch_afterECD"),
                         currentDebugPort')]
  /\ calls' = calls + 1
  /\ UNCHANGED <<launchedChrome, launchedChromeSpawnError,
                 launchedChromeExited, selectedProfileName,
                 detectedActiveProfile, lastStatusMessage, currentUserDataDir,
                 trackVars, confVars, reply, worldVars, sentVars, cur, notes, histVars>>

\* main.js:575-577.
FetchAfterECD(t) ==
  /\ cur = t
  /\ tasks[t].pc = "fetch_afterECD"
  /\ IF ~tasks[t].rv
       THEN tasks' = [tasks EXCEPT ![t] = Return([@ EXCEPT !.result = {}], FALSE)]
       ELSE tasks' = [tasks EXCEPT ![t] =
                        CallETT(Push(@, "fetch_afterETT"), currentDebugPort)]
  /\ cur' = IF tasks'[t].pc = "ett_probe" THEN 0 ELSE TurnAfter(t, tasks'[t])
  /\ UNCHANGED <<progVars, trackVars, confVars, reply, worldVars, sentVars, calls,
                 notes, histVars>>

\* main.js:578-581.
FetchAfterETT(t) ==
  /\ cur = t
  /\ tasks[t].pc = "fetch_afterETT"
  /\ IF tasks[t].rv
       THEN /\ tasks' = [tasks EXCEPT
                           ![t] = Return([@ EXCEPT !.result =
                                            tabsFromState(tabsById)], TRUE)]
            /\ cur' = TurnAfter(t, tasks'[t])
       ELSE /\ tasks' = [tasks EXCEPT ![t].pc = "fetch_list",
                                      ![t].port = currentDebugPort]
            /\ cur' = 0
  /\ UNCHANGED <<progVars, trackVars, confVars, reply, worldVars, sentVars, calls,
                 notes, histVars>>

\* main.js:582-588: the one-shot list, filtered to pages.
OneShot(b, list) ==
  { [id |-> <<b, k>>, title |-> list[k].title, url |-> list[k].url] :
    k \in {j \in 1..MaxTargets : list[j].type = "page"} }

\* The catch answering with the registry instead of nothing.
CatchReturnsRegistry == tabsFromState(tabsById)

\* main.js:589-593: what the catch of fetchChromeTabs returns.
CatchReturns == {}

\* main.js:581-593: CDP.List has settled.
FetchListDone(t, list) ==
  /\ cur = 0
  /\ tasks[t].pc = "fetch_list"
  /\ IF Serving(tasks[t].port) # 0
       THEN /\ tasks' = [tasks EXCEPT
                           ![t] = Return([@ EXCEPT !.result =
                                            OneShot(Serving(tasks[t].port), list)],
                                         TRUE)]
            /\ UNCHANGED lastStatusMessage
       ELSE /\ lastStatusMessage' = MsgFetchError
            /\ tasks' = [tasks EXCEPT
                           ![t] = Return([@ EXCEPT !.result = CatchReturns],
                                         FALSE)]
  /\ cur' = TurnAfter(t, tasks'[t])
  /\ UNCHANGED <<currentDebugPort, launchedChrome, launchedChromeSpawnError,
                 launchedChromeExited, selectedProfileName,
                 detectedActiveProfile, currentUserDataDir, trackVars,
                 confVars, reply, worldVars, sentVars, calls, notes, histVars>>

\* ------------------------------------------------------- sendChromeTabs
\* main.js:596-599: sendChromeTabs() up to its await: fetchChromeTabs()
\* without a port resolves to the remembered one.
CallSend(tk, p) == CallECD(Push(Push(tk, "send_afterFetch"), "fetch_afterECD"), p)

\* main.js:600-605: the fetched tabs and a status line go to the window.
SendAfterFetch(t) ==
  /\ cur = t
  /\ tasks[t].pc = "send_afterFetch"
  /\ sentTabs' = [any |-> TRUE, tabs |-> tasks[t].result]
  /\ sentStatus' = <<Cardinality(tasks[t].result), currentDebugPort,
                     detectedActiveProfile>>
  /\ tasks' = [tasks EXCEPT ![t] = Return(@, TRUE)]
  /\ cur' = TurnAfter(t, tasks'[t])
  /\ UNCHANGED <<progVars, trackVars, confVars, reply, worldVars, calls, notes, histVars>>

\* ------------------------------------------- the did-finish-load handler
\* main.js:789-791.
StartPageLoad(t) ==
  /\ CanStart(t)
  /\ tasks' = [tasks EXCEPT ![t] =
                 CallETT(Push([IdleTask EXCEPT !.op = "pageload"], "pl_afterETT"),
                         currentDebugPort)]
  /\ calls' = calls + 1
  /\ UNCHANGED <<progVars, trackVars, confVars, reply, worldVars, sentVars, cur,
                 notes, histVars>>

PlAfterETT(t) ==
  /\ cur = t
  /\ tasks[t].pc = "pl_afterETT"
  /\ currentDebugPort' = resolvePort("other", 0, "")
  /\ tasks' = [tasks EXCEPT ![t] = CallSend(@, currentDebugPort')]
  /\ cur' = 0
  /\ UNCHANGED <<launchedChrome, launchedChromeSpawnError,
                 launchedChromeExited, selectedProfileName,
                 detectedActiveProfile, lastStatusMessage, currentUserDataDir,
                 trackVars, confVars, reply, worldVars, sentVars, calls, notes, histVars>>

\* -------------------------------------------------------- switchProfile
\* main.js:613-614.
StartSwitch(t, id) ==
  /\ CanStart(t)
  /\ tasks' = [tasks EXCEPT ![t] =
                 Push([IdleTask EXCEPT !.op = "switch", !.pc = "stt",
                                       !.arg = id, !.owned = launchedChrome],
                      "sw_afterSTT")]
  /\ cur' = t
  /\ calls' = calls + 1
  /\ UNCHANGED <<progVars, trackVars, confVars, reply, worldVars, sentVars, notes,
                 histVars>>

\* main.js:616-628: kill the owned child, force-kill, select the profile and
\* call ensureChromeDebugging.
SwAfterSTT(t) ==
  /\ cur = t
  /\ tasks[t].pc = "sw_afterSTT"
  /\ signalled' = IF launchedChrome # 0 /\ procs[launchedChrome] \in {"starting", "listening"}
                    THEN signalled \cup {launchedChrome} ELSE signalled
  /\ forceKillChrome
  /\ selectedProfileName' = tasks[t].arg
  /\ tasks' = [tasks EXCEPT ![t] = CallECD(Push(@, "sw_afterECD"),
                                           currentDebugPort)]
  /\ cur' = 0
  /\ UNCHANGED <<currentDebugPort, launchedChrome, launchedChromeSpawnError,
                 launchedChromeExited, detectedActiveProfile,
                 lastStatusMessage, currentUserDataDir, trackVars, confVars, reply,
                 localState, launchProfile, now, sentVars, calls, notes,
                 flagSeen,
                 lastNote>>

\* main.js:628-630.
SwAfterECD(t) ==
  /\ cur = t
  /\ tasks[t].pc = "sw_afterECD"
  /\ IF tasks[t].rv
       THEN /\ tasks' = [tasks EXCEPT ![t] =
                           CallETT(Push([@ EXCEPT !.ok = TRUE], "sw_afterETT"),
                                   currentDebugPort)]
            /\ cur' = 0
       ELSE /\ tasks' = [tasks EXCEPT ![t] = Return([@ EXCEPT !.ok = FALSE],
                                                    FALSE)]
            /\ cur' = TurnAfter(t, tasks'[t])
  /\ UNCHANGED <<progVars, trackVars, confVars, reply, worldVars, sentVars, calls,
                 notes, histVars>>

\* main.js:630-631: tracking's result is dropped; sendChromeTabs is called.
\* `tracked` keeps what ensureTabTracking resolved with.
SwAfterETT(t) ==
  /\ cur = t
  /\ tasks[t].pc = "sw_afterETT"
  /\ currentDebugPort' = resolvePort("other", 0, "")
  /\ tasks' = [tasks EXCEPT ![t] =
                 CallSend(Push([@ EXCEPT !.tracked = tasks[t].rv],
                               "sw_afterSend"),
                          currentDebugPort')]
  /\ cur' = 0
  /\ UNCHANGED <<launchedChrome, launchedChromeSpawnError,
                 launchedChromeExited, selectedProfileName,
                 detectedActiveProfile, lastStatusMessage, currentUserDataDir,
                 trackVars, confVars, reply, worldVars, sentVars, calls, notes, histVars>>

\* main.js:633.
SwAfterSend(t) ==
  /\ cur = t
  /\ tasks[t].pc = "sw_afterSend"
  /\ tasks' = [tasks EXCEPT ![t] = Return(@, tasks[t].ok)]
  /\ cur' = TurnAfter(t, tasks'[t])
  /\ UNCHANGED <<progVars, trackVars, confVars, reply, worldVars, sentVars, calls,
                 notes, histVars>>

\* ------------------------------------------------------------- start-up
\* main.js:786: whenReady ensures a session before anything else is called.
StartStartup(t) ==
  /\ CanStart(t)
  /\ calls = 0
  /\ tasks' = [tasks EXCEPT ![t] =
                 CallECD([IdleTask EXCEPT !.op = "startup"], currentDebugPort)]
  /\ calls' = calls + 1
  /\ UNCHANGED <<progVars, trackVars, confVars, reply, worldVars, sentVars, cur,
                 notes, histVars>>

\* ------------------------------------------------------------ the system
FetchInputs ==
  {<<"num", p, "">> : p \in Ports}
    \cup {<<"str", 0, s>> : s \in InputStrings}
    \cup {<<"other", 0, "">>}

DestroyedInfo == [type |-> "page", title |-> "", url |-> <<>>]

\* The steps of the calls in flight; lists are the target lists a browser
\* may answer with.
TaskStep(lists) ==
  \/ \E t \in TaskIds : EcdProbe1Done(t)
  \/ \E t \in TaskIds : EcdProbe2Done(t)
  \/ \E t \in TaskIds : EcdProbe3Done(t)
  \/ \E t \in TaskIds, spawned \in BOOLEAN : EcdSpawnDone(t, spawned)
  \/ \E t \in TaskIds : EcdWaitProbeDone(t)
  \/ \E t \in TaskIds : EcdDelayDone(t, Pace(tasks[t].i))
  \/ \E t \in TaskIds : Stt(t)
  \/ \E t \in TaskIds : SttCloseDone(t)
  \/ \E t \in TaskIds : EttProbeDone(t)
  \/ \E t \in TaskIds : EttAfterStt(t)
  \/ \E t \in TaskIds : EttConnectDone(t)
  \/ \E t \in TaskIds, answered \in BOOLEAN : EttDiscoverDone(t, answered)
  \/ \E t \in TaskIds, answered \in BOOLEAN, list \in lists :
       EttTargetsDone(t, answered, list)
  \/ \E t \in TaskIds : EttCatch(t)
  \/ \E t \in TaskIds : FetchAfterECD(t)
  \/ \E t \in TaskIds : FetchAfterETT(t)
  \/ \E t \in TaskIds, list \in lists : FetchListDone(t, list)
  \/ \E t \in TaskIds : SendAfterFetch(t)
  \/ \E t \in TaskIds : PlAfterETT(t)
  \/ \E t \in TaskIds : SwAfterSTT(t)
  \/ \E t \in TaskIds : SwAfterECD(t)
  \/ \E t \in TaskIds : SwAfterETT(t)
  \/ \E t \in TaskIds : SwAfterSend(t)

\* The lifecycle notifications of the browsers.
NotifyStep ==
  \/ \E c \in ConnIds, k \in 1..MaxTargets, info \in TargetInfos :
       Notify(c, "created", k, info)
  \/ \E c \in ConnIds, k \in 1..MaxTargets, info \in TargetInfos :
       Notify(c, "changed", k, info)
  \/ \E c \in ConnIds, k \in 1..MaxTargets : Notify(c, "destroyed", k, DestroyedInfo)

\* The browsers' own moves.
WorldStep ==
  \/ \E n \in ProcIds : ProcOpensPort(n)
  \/ \E n \in ProcIds : ProcDies(n)
  \/ \E n \in ProcIds : ChildExitEvent(n)
  \/ \E p \in Ports : ExtExits(p)

\* A top-level operation is called.
Start ==
  \/ \E t \in TaskIds, in \in FetchInputs : StartFetch(t, in[1], in[2], in[3])
  \/ \E t \in TaskIds : StartPageLoad(t)
  \/ \E t \in TaskIds, id \in Profiles : StartSwitch(t, id)
  \/ \E t \in TaskIds : StartStartup(t)

\* The quiet configuration: no force-kill, no lock artifacts, no state file.
InitQuietConf ==
  /\ InitProgram
  /\ ModuleLoaded(NoEnv)
  /\ FORCE_KILL_CHROME = FALSE
  /\ platform = "linux"
  /\ extPlain = FALSE
  /\ locks = FALSE
  /\ localState = LocalStateMissing
  /\ enumerates = TRUE
  /\ spawnable = OneLaunch

\* Tracking: two external browsers, one on the default port and one on
\* another; the caller starts one operation at a time (spec section 5).
Init == InitQuietConf /\ extPorts = {DEBUG_PORT, OtherPort}
Next == (Quiet /\ Start) \/ TaskStep(TargetLists) \/ NotifyStep \/ WorldStep
Spec == Init /\ [][Next]_vars

\* Session establishment: every configuration, browsers that list no
\* target; one operation at a time.
NoTargets == [k \in 1..MaxTargets |-> [type |-> "absent", title |-> "", url |-> <<>>]]
InitSession ==
  /\ InitProgram
  /\ ModuleLoaded(NoEnv)
  /\ FORCE_KILL_CHROME \in BOOLEAN
  /\ platform \in Platforms
  /\ extPorts \in SUBSET Ports
  /\ extPlain \in BOOLEAN
  /\ locks \in BOOLEAN
  /\ localState = LocalStateFull
  /\ enumerates = TRUE
  /\ spawnable = OneLaunch
NextSession == (Quiet /\ Start) \/ TaskStep({NoTargets}) \/ WorldStep
SessionSpec == InitSession /\ [][NextSession]_vars

\* Overlap: one external browser on the default port.  The consumer still
\* starts one operation at a time, but the window's did-finish-load handler
\* runs whenever a page load finishes, also while a fetch is in flight.
InitOverlap == InitQuietConf /\ extPorts = {DEBUG_PORT}
NoneInFlight(op) == \A t \in TaskIds : tasks[t].op = op => Free(t)
StartOverlap ==
  \/ \E t \in TaskIds : NoneInFlight("fetch") /\ StartFetch(t, "other", 0, "")
  \/ \E t \in TaskIds : NoneInFlight("pageload") /\ StartPageLoad(t)
TaskStepOverlap ==
  \/ \E t \in TaskIds : EcdProbe1Done(t)
  \/ \E t \in TaskIds : Stt(t)
  \/ \E t \in TaskIds : EttProbeDone(t)
  \/ \E t \in TaskIds : EttAfterStt(t)
  \/ \E t \in TaskIds : EttConnectDone(t)
  \/ \E t \in TaskIds, answered \in BOOLEAN : EttDiscoverDone(t, answered)
  \/ \E t \in TaskIds, answered \in BOOLEAN, list \in TargetLists :
       EttTargetsDone(t, answered, list)
  \/ \E t \in TaskIds : FetchAfterECD(t)
  \/ \E t \in TaskIds : FetchAfterETT(t)
  \/ \E t \in TaskIds : SendAfterFetch(t)
  \/ \E t \in TaskIds : PlAfterETT(t)
NextOverlap == StartOverlap \/ TaskStepOverlap \/ NotifyStep
OverlapSpec == InitOverlap /\ [][NextOverlap]_vars

\* Launching: no browser runs at the start, so every session is one the
\* supervisor launches, and the host lets MaxLaunch spawns succeed; the
\* process query by name may or may not see the launched browser; one
\* operation at a time.
InitLaunch ==
  /\ InitProgram
  /\ ModuleLoaded(NoEnv)
  /\ FORCE_KILL_CHROME = FALSE
  /\ platform = "linux"
  /\ extPorts = {}
  /\ extPlain = FALSE
  /\ locks = FALSE
  /\ localState = LocalStateFull
  /\ enumerates \in BOOLEAN
  /\ spawnable = MaxLaunch
StartLaunch ==
  \/ \E t \in TaskIds : StartStartup(t)
  \/ \E t \in TaskIds : StartFetch(t, "other", 0, "")
  \/ \E t \in TaskIds : StartPageLoad(t)
  \/ \E t \in TaskIds, id \in Profiles : StartSwitch(t, id)
WorldLaunch ==
  \/ \E n \in ProcIds : ProcOpensPort(n)
  \/ \E n \in ProcIds : ProcDies(n)
  \/ \E n \in ProcIds : ChildExitEvent(n)
NextLaunch == (Quiet /\ StartLaunch) \/ TaskStep({NoTargets}) \/ WorldLaunch
LaunchSpec == InitLaunch /\ [][NextLaunch]_vars

\* ------------------------------------------------- the wait, unpaced
\* The start-up call alone, with every iteration of waitForDebugPort a step
\* of its own, over every configuration of Linux hosts.
InitWait ==
  /\ InitProgram
  /\ ModuleLoaded(NoEnv)
  /\ FORCE_KILL_CHROME \in BOOLEAN
  /\ platform = "linux"
  /\ enumerates \in BOOLEAN
  /\ spawnable = OneLaunch
  /\ extPorts \in SUBSET Ports
  /\ extPlain \in BOOLEAN
  /\ locks = FALSE
  /\ localState = LocalStateFull

\* The steps of ensureChromeDebugging, one loop iteration at a time.
TaskStepWait ==
  \/ \E t \in TaskIds : EcdProbe1Done(t)
  \/ \E t \in TaskIds : EcdProbe2Done(t)
  \/ \E t \in TaskIds : EcdProbe3Done(t)
  \/ \E t \in TaskIds, spawned \in BOOLEAN : EcdSpawnDone(t, spawned)
  \/ \E t \in TaskIds : EcdWaitProbeDone(t)
  \/ \E t \in TaskIds : EcdDelayDone(t, 1)

NextWait ==
  \/ \E t \in TaskIds : StartStartup(t)
  \/ TaskStepWait
  \/ WorldStep

\* Every probe is answered or times out, every timer fires and every spawn
\* ends in 'spawn' or 'error': a call that can take a step takes it.
WaitSpec == InitWait /\ [][NextWait]_vars /\ WF_vars(TaskStepWait)

\* ------------------------------------------------- the merge of changes
\* One browser, tracked by a fetch, sending up to MaxMergeNotes notifications
\* while the clock advances; the notifications carry two different titles
\* and URLs, each possibly empty, and the history keeps the last one.
MaxMergeNotes == 2
MaxNow == 3
OtherUrl == <<"https://", "b.example/">>
MergeInfos ==
  TargetInfos \cup
    { [type |-> "page", title |-> "B", url |-> OtherUrl],
      [type |-> "page", title |-> "B", url |-> <<>>],
      [type |-> "page", title |-> "", url |-> OtherUrl] }

\* Date.now() advances between callbacks.
Tick ==
  /\ cur = 0
  /\ now < MaxNow
  /\ now' = now + 1
  /\ UNCHANGED <<progVars, trackVars, confVars, reply, extPorts, extPlain, locks,
                 localState, procs, launchProfile, signalled, conns, sentVars,
                 schedVars, histVars>>

NotifyMerge ==
  \/ \E c \in ConnIds, k \in 1..MaxTargets, info \in MergeInfos :
       NotifyUpTo(c, "created", k, info, MaxMergeNotes,
                  [kind |-> "created", conn |-> c, k |-> k, info |-> info])
  \/ \E c \in ConnIds, k \in 1..MaxTargets, info \in MergeInfos :
       NotifyUpTo(c, "changed", k, info, MaxMergeNotes,
                  [kind |-> "changed", conn |-> c, k |-> k, info |-> info])
  \/ \E c \in ConnIds, k \in 1..MaxTargets :
       NotifyUpTo(c, "destroyed", k, DestroyedInfo, MaxMergeNotes,
                  [kind |-> "destroyed", conn |-> c, k |-> k,
                   info |-> DestroyedInfo])

\* The steps of a fetch whose session and tracking succeed.
TaskStepMerge ==
  \/ \E t \in TaskIds : EcdProbe1Done(t)
  \/ \E t \in TaskIds : FetchAfterECD(t)
  \/ \E t \in TaskIds : EttProbeDone(t)
  \/ \E t \in TaskIds : Stt(t)
  \/ \E t \in TaskIds : EttAfterStt(t)
  \/ \E t \in TaskIds : EttConnectDone(t)
  \/ \E t \in TaskIds : EttDiscoverDone(t, TRUE)
  \/ \E t \in TaskIds, list \in TargetLists : EttTargetsDone(t, TRUE, list)
  \/ \E t \in TaskIds : FetchAfterETT(t)

InitMerge == InitQuietConf /\ extPorts = {DEBUG_PORT}
NextMerge ==
  \/ Quiet /\ \E t \in TaskIds : StartFetch(t, "other", 0, "")
  \/ TaskStepMerge
  \/ NotifyMerge
  \/ Tick
MergeSpec == InitMerge /\ [][NextMerge]_vars

\* ------------------------------------------------- profile metadata
\* main.js:775: 'chrome-tabs:profiles' resolves with getAvailableProfiles().
\* The handler is synchronous and runs between the turns of other calls.
GetProfiles ==
  /\ cur = 0
  /\ reply' = [op |-> "profiles", name |-> None,
               profiles |-> getAvailableProfiles, threw |-> FALSE]
  /\ UNCHANGED <<progVars, trackVars, confVars, worldVars, sentVars,
                 schedVars, histVars>>

\* main.js:776: 'chrome-tabs:current-profile' resolves with the selected
\* profile name; the state file is not read.
GetCurrentProfile ==
  /\ cur = 0
  /\ reply' = [op |-> "current-profile", name |-> selectedProfileName,
               profiles |-> <<>>, threw |-> FALSE]
  /\ UNCHANGED <<progVars, trackVars, confVars, worldVars, sentVars,
                 schedVars, histVars>>

\* The settings the environment may carry.
DirEnvs ==
  { NoPath, BlankPath,
    <<"home", "User Data">>, <<"home", "USER DATA">>,
    <<"home", "User Data", "Profile 1">>, <<"data", "Work">> }
NameEnvs == { None, "", "Profile 2" }

\* The profile handlers over every environment, platform and state file.
InitProfile ==
  /\ InitProgram
  /\ \E d \in DirEnvs, n \in NameEnvs : ModuleLoaded([dir |-> d, name |-> n])
  /\ FORCE_KILL_CHROME = FALSE
  /\ platform \in {"win32", "linux"}
  /\ enumerates = TRUE
  /\ spawnable = OneLaunch
  /\ extPorts = {}
  /\ extPlain = FALSE
  /\ locks = FALSE
  /\ localState \in LocalStates
NextProfile == GetProfiles \/ GetCurrentProfile
ProfileSpec == InitProfile /\ [][NextProfile]_vars

\* ============================================================ properties
\* The labels of a call inside ensureChromeDebugging.
EcdLabels ==
  {"ecd_probe1", "ecd_probe2", "ecd_probe3", "ecd_spawn", "ecd_wait", "ecd_delay"}

\* Whether a status message contains the word w.
Mentions(msg, w) == \E i \in 1..Len(msg) : msg[i] = w

\* C1 -- Epoch isolation.  Once a tracking start has completed (the
\* connection held in cdpClient has its handlers registered and cdpPort is
\* its port), every registry entry was written through that connection: by
\* its seed or by one of its notifications.  No entry written by a
\* notification of an earlier connection is left.
EpochIsolation ==
  \A c \in ConnIds :
    (cdpClient = c /\ conns[c].handlers /\ cdpPort = conns[c].port)
      => \A id \in DOMAIN tabsById : tabsById[id].via = c

\* C2 -- At most one connection.  Every connection that ensureTabTracking
\* has opened and that is not closed is the one held in cdpClient.
AtMostOneConnection ==
  \A c \in ConnIds : conns[c].state \in {"open", "closing"} => cdpClient = c

\* C3 -- Idempotent tracking start.  When the probe of ensureTabTracking
\* answers while a started connection is held for the remembered port and
\* the port is reachable, the call returns true in that step, and the step
\* opens no connection, registers no handler and leaves the registry alone.
IdempotentTrackingStart ==
  [][\A t \in TaskIds :
       ( /\ tasks[t].pc = "ett_probe"
         /\ tasks'[t].pc # "ett_probe"
         /\ cdpClient # 0
         /\ conns[cdpClient].handlers
         /\ cdpPort = currentDebugPort
         /\ tasks[t].port = currentDebugPort
         /\ checkChromeDebugging(tasks[t].port) )
       => /\ tasks'[t].pc = Head(tasks[t].stack)
          /\ tasks'[t].rv = TRUE
          /\ conns' = conns
          /\ cdpClient' = cdpClient
          /\ tabsById' = tabsById
          /\ initialTabIds' = initialTabIds]_vars

\* A second fetch has had true from ensureTabTracking while the first
\* connection, which has already delivered a notification, is still the
\* one held, and no other connection has been opened.
IdempotentStartSeen ==
  /\ calls = 2
  /\ notes = 1
  /\ \E t \in TaskIds : /\ tasks[t].op = "fetch"
                        /\ tasks[t].pc = "fetch_afterETT"
                        /\ tasks[t].rv
  /\ cdpClient = 1
  /\ conns[1].handlers
  /\ \A c \in ConnIds : c # 1 => conns[c].state = "none"

\* C4 -- Filter invariant.  No registry entry has a URL that starts with
\* devtools://, and every entry was written from a target of type page.
FilterInvariant ==
  \A id \in DOMAIN tabsById :
    /\ ~StartsWithDevtools(tabsById[id].url)
    /\ tabsById[id].type = "page"

\* A DevTools front-end page has been met and passed over while the
\* registry holds an entry.
FilterExercised == "skipDevtools" \in log /\ DOMAIN tabsById # {}

\* C5 -- Initial flag stability.  Within an epoch the isInitial value the
\* registry holds for an id is the value the id was first seen with.
InitialFlagStable ==
  \A id \in DOMAIN tabsById :
    id \in DOMAIN flagSeen => tabsById[id].isInitial = flagSeen[id]

\* C6 -- Port agreement.  Whenever tracking is active (a connection is held
\* in cdpClient), cdpPort equals currentDebugPort.  It is stated where it
\* asks least: for the states in which no operation is in flight and the
\* connection held is open.
PortAgreement ==
  (Quiet /\ cdpClient # 0 /\ conns[cdpClient].state = "open")
    => cdpPort = currentDebugPort

\* C7 -- The registry lives only as long as its connection.  Whenever
\* cdpClient is null the registry and the set of initial ids are empty.
RegistryFollowsConnection ==
  cdpClient = 0 => (DOMAIN tabsById = {} /\ initialTabIds = {})

\* The step of task t returns v from ensureChromeDebugging.
EcdReturns(t, v) == tasks'[t].pc \notin EcdLabels /\ tasks'[t].rv = v

\* The step of task t adopts the port whose probe has answered: true is
\* returned, and nothing was detected, killed or launched.
ProbeAdopts(t) ==
  /\ EcdReturns(t, TRUE)
  /\ currentDebugPort' = tasks[t].port
  /\ tasks'[t].ran = {}
  /\ UNCHANGED <<launchedChrome, procs, extPorts, extPlain, locks, log>>

\* The step of task t goes on to probe port p.
ProbesNext(t, label, p) ==
  /\ tasks'[t].pc = label
  /\ tasks'[t].port = p
  /\ tasks'[t].probed = Append(tasks[t].probed, p)
  /\ UNCHANGED currentDebugPort

\* C8 -- Fallback ordering.  ensureChromeDebugging probes the remembered
\* port, then DEBUG_PORT, then ALT_DEBUG_PORT; the first probe that succeeds
\* makes its port currentDebugPort and the call return true without running
\* the conflict detector, the force-kill or the launcher.
FallbackOrdering ==
  [][\A t \in TaskIds :
       /\ (tasks[t].pc = "ecd_probe1" /\ tasks'[t].pc # "ecd_probe1")
            => /\ tasks[t].port = currentDebugPort
               /\ tasks[t].probed = <<currentDebugPort>>
               /\ IF checkChromeDebugging(tasks[t].port)
                    THEN ProbeAdopts(t)
                    ELSE ProbesNext(t, "ecd_probe2", DEBUG_PORT)
       /\ (tasks[t].pc = "ecd_probe2" /\ tasks'[t].pc # "ecd_probe2")
            => IF checkChromeDebugging(tasks[t].port)
                 THEN ProbeAdopts(t)
                 ELSE ProbesNext(t, "ecd_probe3", ALT_DEBUG_PORT)
       /\ (tasks[t].pc = "ecd_probe3" /\ tasks'[t].pc # "ecd_probe3"
             /\ checkChromeDebugging(tasks[t].port))
            => ProbeAdopts(t)]_vars

\* A fetch for a port nothing listens on has adopted the default port at
\* the second probe, and nothing was ever launched.
FallbackToDefaultSeen ==
  /\ \E t \in TaskIds : /\ tasks[t].pc = "fetch_afterECD"
                        /\ tasks[t].rv
                        /\ tasks[t].probed = <<OtherPort, DEBUG_PORT>>
                        /\ tasks[t].ran = {}
  /\ currentDebugPort = DEBUG_PORT
  /\ \A n \in ProcIds : procs[n] = "none"

\* C9 -- Conflict standoff.  When the third probe fails too, a running
\* browser is detected and force-kill is off, ensureChromeDebugging returns
\* false with a status message that mentions both that the browser is
\* running and CHROME_FORCE_KILL=1; it neither force-kills nor launches, and
\* launchedChrome is what it was when the call began.
ConflictStandoff ==
  [][\A t \in TaskIds :
       ( /\ tasks[t].pc = "ecd_probe3"
         /\ tasks'[t].pc # "ecd_probe3"
         /\ Len(tasks[t].probed) = 3
         /\ ~checkChromeDebugging(tasks[t].port)
         /\ chromeRunning
         /\ ~FORCE_KILL_CHROME )
       => /\ EcdReturns(t, FALSE)
          /\ Mentions(lastStatusMessage', "running")
          /\ Mentions(lastStatusMessage', "CHROME_FORCE_KILL=1")
          /\ tasks'[t].ran \cap {"forceKillChrome", "launch"} = {}
          /\ launchedChrome' = tasks[t].held
          /\ UNCHANGED <<launchedChrome, procs, extPorts, extPlain, locks,
                         log>>]_vars

\* The start-up call has ended in the standoff.
StandoffSeen ==
  \E t \in TaskIds : /\ tasks[t].op = "startup"
                     /\ tasks[t].pc = "done"
                     /\ ~tasks[t].rv
                     /\ tasks[t].ran = {"detect"}
                     /\ Len(tasks[t].probed) = 3
                     /\ lastStatusMessage = MsgStandoff

\* C10 -- Switch-profile sequencing.  When switchProfile was called while a
\* launched process was owned and ensureChromeDebugging has reported a
\* session to it, the old process has terminated and the session is not on
\* the old process's debug endpoint.
SwitchSequencing ==
  \A t \in TaskIds :
    ( /\ tasks[t].op = "switch"
      /\ tasks[t].pc = "sw_afterECD"
      /\ tasks[t].rv
      /\ tasks[t].owned # 0 )
    => /\ procs[tasks[t].owned] \in {"dead", "reaped"}
       /\ Serving(currentDebugPort) # tasks[t].owned

\* C11 -- A superseded launched process is torn down first.  Whenever a
\* step stores a new process in launchedChrome, the process the handle held
\* before has terminated.
SupersededTornDown ==
  [][(launchedChrome' # launchedChrome /\ launchedChrome # 0)
       => procs[launchedChrome] \in {"dead", "reaped"}]_vars


\* C12 -- Graceful metadata degradation.  When the browser's state file is
\* missing, truncated or malformed, the current-profile handler resolves
\* with none and the profile-list handler with the empty sequence, and
\* neither throws.
GracefulMetadataDegradation ==
  (~localState.exists \/ ~localState.parses) =>
    /\ ~reply.threw
    /\ reply.op = "current-profile" => reply.name = None
    /\ reply.op = "profiles" => reply.profiles = <<>>

\* C18 -- Profile resolution precedence.  With both a profile-directory
\* path and a profile-name-only setting configured, a path that is not the
\* root container makes the user-data root its parent and the profile name
\* its basename, not the name-only setting; with no path the name-only
\* setting is the profile name and the root is the platform default.
ProfileResolutionPrecedence ==
  LET d == Trim(profileEnv.dir)
      n == EnvProfileName(profileEnv)
  IN /\ (d # NoPath /\ n # None /\ ToLowerCase(Basename(d)) # "user data")
          => /\ chromeUserDataRoot = Dirname(d)
             /\ selectedProfileName = Basename(d)
     /\ d = NoPath
          => /\ selectedProfileName = n
             /\ chromeUserDataRoot = defaultChromeUserDataRoot

\* C13 -- Recovery from a mid-stream protocol failure.  When fetchTabs has
\* obtained a session and tracking and is about to return the registry, the
\* connection held is an open one and every tab of the registry belongs to
\* a browser that is alive: no tab known only through a dead connection is
\* returned.
RecoveryFromProtocolFailure ==
  \A t \in TaskIds :
    (cur = t /\ tasks[t].pc = "fetch_afterETT" /\ tasks[t].rv)
      => /\ cdpClient # 0
         /\ conns[cdpClient].state = "open"
         /\ \A id \in DOMAIN tabsById : Alive(id[1])

\* C14 -- switchProfile(id) outcome.  When a switchProfile call returns, the
\* selected profile is its argument, and it returns true only when both the
\* session (ensureChromeDebugging) and tab tracking (ensureTabTracking) were
\* re-established; a failure of either makes it return false.
SwitchProfileOutcome ==
  [][\A t \in TaskIds :
       (tasks[t].op = "switch" /\ tasks[t].pc # "done" /\ tasks'[t].pc = "done")
         => /\ selectedProfileName' = tasks'[t].arg
            /\ tasks'[t].rv => (tasks'[t].ok /\ tasks'[t].tracked)]_vars

\* C15 -- Force-kill is opt-in.  While force-kill is not enabled no step
\* kills a browser by name or deletes a singleton lock: the locks and the
\* browsers without a debug endpoint stay as they are and no such effect is
\* recorded.  When it is enabled, every step of ensureChromeDebugging
\* that reaches the launcher has killed by name and removed the locks,
\* whether or not a conflict was detected.
ForceKillOptIn ==
  [][/\ ~FORCE_KILL_CHROME
          => /\ locks' = locks
             /\ extPlain' = extPlain
             /\ log' \cap {"killByName", "unlinkLock"} = {}
     /\ \A t \in TaskIds :
          (FORCE_KILL_CHROME /\ tasks[t].pc = "ecd_probe3"
             /\ tasks'[t].pc = "ecd_spawn")
            => /\ "killByName" \in log'
               /\ ~locks'
               /\ ~extPlain'
               /\ extPorts' = {}]_vars

\* Force-kill is disabled, a singleton lock exists, and a call has gone
\* through forceKillChrome to the launcher with the lock left in place.
OptInLeavesLocks ==
  /\ ~FORCE_KILL_CHROME
  /\ locks
  /\ \E t \in TaskIds :
       tasks[t].pc = "ecd_spawn" /\ "forceKillChrome" \in tasks[t].ran

\* The step of task t returns from fetchChromeTabs.
FetchLabels == {"fetch_afterECD", "fetch_afterETT", "fetch_list"}
FetchReturns(t) ==
  /\ tasks[t].pc \in FetchLabels
  /\ tasks'[t].pc \in {"done", "send_afterFetch"}

\* C16 -- No error crosses the consumer boundary from fetchTabs.  Every
\* step that ends fetchChromeTabs returns a collection of tab records; it is
\* empty when ensureChromeDebugging has failed, and when the one-shot
\* listing raises it is empty and the status message is recorded.
NoErrorCrossesFetch ==
  [][\A t \in TaskIds :
       /\ FetchReturns(t)
            => \A e \in tasks'[t].result : {"id", "title", "url"} \subseteq DOMAIN e
       /\ (tasks[t].pc = "fetch_afterECD" /\ cur = t /\ ~tasks[t].rv)
            => (FetchReturns(t) /\ tasks'[t].result = {})
       /\ (tasks[t].pc = "fetch_list" /\ tasks'[t].pc # "fetch_list"
             /\ Serving(tasks[t].port) = 0)
            => /\ FetchReturns(t)
               /\ tasks'[t].result = {}
               /\ lastStatusMessage' = MsgFetchError]_vars

\* A fetchTabs call has ended in its catch with the registry not empty: it
\* returned nothing and left the error as the status message.
FetchCaughtSeen ==
  \E t \in TaskIds :
    /\ tasks[t].op = "fetch"
    /\ tasks[t].pc = "done"
    /\ tasks[t].result = {}
    /\ lastStatusMessage = MsgFetchError
    /\ DOMAIN tabsById # {}

\* C17 -- Conflict detection is the OR of two signals on every platform.
\* When the third probe fails too and force-kill is off, a browser process
\* found by enumeration or a singleton lock under the user-data root or the
\* selected profile directory makes ensureChromeDebugging stand off: it
\* returns false and does not launch.
ConflictEitherSignal ==
  [][\A t \in TaskIds :
       ( /\ tasks[t].pc = "ecd_probe3"
         /\ tasks'[t].pc # "ecd_probe3"
         /\ ~checkChromeDebugging(tasks[t].port)
         /\ (chromeProcessesRunning \/ chromeProfileLikelyLocked)
         /\ ~FORCE_KILL_CHROME )
       => /\ EcdReturns(t, FALSE)
          /\ "launch" \notin tasks'[t].ran]_vars

\* C19 -- Bounded wait and termination.  After a launch the wait for the
\* debug port issues at most 240 probes; the step in which a probe of the
\* wait succeeds returns true; the iteration that reads the spawn-failure or
\* premature-exit flag set returns false and issues no further probe; and
\* every call of ensureChromeDebugging ends.
BoundedWaitAndTermination ==
  /\ [](\A t \in TaskIds : tasks[t].pc = "ecd_wait" => tasks[t].i + 1 <= 240)
  /\ [][\A t \in TaskIds :
          /\ (tasks[t].pc = "ecd_wait" /\ tasks'[t].pc # "ecd_wait"
                /\ checkChromeDebugging(tasks[t].port))
               => EcdReturns(t, TRUE)
          /\ (tasks[t].pc = "ecd_delay" /\ tasks'[t].pc # "ecd_delay"
                /\ (launchedChromeSpawnError \/ launchedChromeExited))
               => EcdReturns(t, FALSE)]_vars
  /\ \A t \in TaskIds : (tasks[t].pc \in EcdLabels) ~> (tasks[t].pc = "done")

\* A wait has used up all its probes: the call ended false after the last
\* iteration.
WaitExhausted ==
  \E t \in TaskIds :
    tasks[t].pc = "done" /\ ~tasks[t].rv /\ tasks[t].i = WaitAttempts

\* C20 -- Snapshot emission.  In every quiescent state (no operation or
\* handler in progress) in which the window has been sent a snapshot, the
\* last snapshot sent equals the registry; and a registry that was never
\* sent is empty.
SnapshotEmission ==
  Quiet =>
    IF sentTabs.any
      THEN sentTabs.tabs = tabsFromState(tabsById)
      ELSE DOMAIN tabsById = {}

\* C21 -- Tracking setup failure is clean and not retried.  The step in
\* which the catch block of ensureTabTracking returns (the connection, the
\* discovery request or the target list has failed) returns false after one
\* connection request, with no connection held, the source port unset and
\* the registry and the set of initial ids empty.
SetupFailureClean ==
  [][\A t \in TaskIds :
       (tasks[t].pc = "ett_catch" /\ tasks'[t].pc # "ett_catch")
         => /\ tasks'[t].rv = FALSE
            /\ tasks[t].tries = 1
            /\ cdpClient' = 0
            /\ cdpPort' = 0
            /\ DOMAIN tabsById' = {}
            /\ initialTabIds' = {}]_vars

\* The catch block is about to return after a failure that came once the
\* connection was open: the connection it opened, whose handlers were never
\* registered, has been closed.
SetupFailedAfterConnect ==
  \E t \in TaskIds :
    /\ cur = t
    /\ tasks[t].pc = "ett_catch"
    /\ tasks[t].conn # 0
    /\ conns[tasks[t].conn].state = "closed"
    /\ ~conns[tasks[t].conn].handlers
    /\ cdpClient = 0

RememberedPortConfirmed ==
  [][currentDebugPort' # currentDebugPort
       => \/ checkChromeDebugging(currentDebugPort')
          \/ launchedChrome' # launchedChrome /\ launchedChrome' # 0]_vars

\* C24 -- The abort flags belong to the current launch.  When the wait for
\* the debug port of a newly launched process returns false before its
\* probes are used up, or the launch itself fails, the new process has
\* failed to spawn or has itself exited.
AbortFlagsOfCurrentLaunch ==
  [][\A t \in TaskIds :
       ( /\ EcdReturns(t, FALSE)
         /\ \/ tasks[t].pc = "ecd_spawn"
            \/ tasks[t].pc = "ecd_delay" /\ tasks'[t].i < WaitAttempts )
       => \/ launchedChromeSpawnError'
          \/ /\ launchedChrome' # 0
             /\ procs'[launchedChrome'] \in {"dead", "reaped"}]_vars

\* C25 -- switchProfile(id) returns true only for a session running the
\* requested profile.  When ensureChromeDebugging has reported a session to
\* switchProfile (which then returns true), the endpoint in use is served
\* by a process the supervisor launched during the call, with id as its
\* profile directory: not by an external browser and not by the process
\* owned when the call began.
SwitchRunsRequestedProfile ==
  \A t \in TaskIds :
    ( /\ tasks[t].op = "switch"
      /\ tasks[t].pc = "sw_afterECD"
      /\ cur = t
      /\ tasks[t].rv )
    => LET b == Serving(currentDebugPort) IN
         /\ b \in ProcIds
         /\ b # tasks[t].owned
         /\ launchProfile[b] = tasks[t].arg
====
